---- MODULE Spec2Model ----
(***************************************************************************)
(* Model of maskr's ROI target sampler (maskr/datagen/head_targets.py) and *)
(* of the index selection of its loss terms (maskmm/loss.py).              *)
(*                                                                         *)
(* Numbers.  A normalised coordinate is kept as an integer numerator over  *)
(* the common denominator h*w of the image shape; an IoU and a ratio are   *)
(* kept as a pair <<numerator, denominator>>, compared by cross            *)
(* multiplication, so that thresholds and truncations are exact.           *)
(* Tensor contents that no selection depends on (deltas, masks, logits,    *)
(* predictions) are kept as terms naming where the value came from, so     *)
(* that a gather of the wrong row, slot or component is visible.           *)
(***************************************************************************)
EXTENDS Integers, Sequences, FiniteSets

VARIABLES
    fn,                 \* the function this run calls
    pc,                 \* "start", "done" (returned) or "raised" (exception)
    \* ---- build_head_targets: inputs
    proposals,          \* sequence of normalised boxes
    gt_class_ids,       \* sequence of integer class ids (< 0 crowd, 0 padding)
    gt_boxes,           \* sequence of pixel boxes
    config,             \* [TRAIN_ROIS_PER_IMAGE, ROI_POSITIVE_RATIO]
    \* ---- build_head_targets: locals that the return value is built from
    overlap_class_ids,  \* gt_class_ids as rebound before compute_overlaps
    positive_indices,   \* after subsampling (0 based, as in the code)
    negative_indices,   \* after subsampling (0 based)
    positive_count,
    \* ---- build_head_targets: outputs
    rois, class_ids, deltas, masks,
    \* ---- losses: inputs
    rpn_match,          \* [batch][anchors][1] of -1, 0, 1
    target_class_ids,   \* [batch][num_rois]
    pad,                \* rows per image of the zero padded rpn target_bbox
    \* ---- losses: output
    loss                \* what the loss primitive was applied to, or the zero

headIn  == <<proposals, gt_class_ids, gt_boxes, config>>
headLoc == <<overlap_class_ids, positive_indices, negative_indices, positive_count>>
headOut == <<rois, class_ids, deltas, masks>>
lossIn  == <<rpn_match, target_class_ids, pad>>
vars    == <<fn, pc, headIn, headLoc, headOut, lossIn, loss>>

-----------------------------------------------------------------------------
(* Bounds of the model *)
MaxProposals == 3
MaxGT        == 2
MaxBatch     == 2
MaxAnchors   == 2
MaxPad       == 2
MaxRois      == 2

\* config.IMAGE_SHAPE[:2]
IMAGE_SHAPE == <<2, 2>>

\* pixel boxes of the ground truth (the whole image, its top left quarter) and
\* proposals in normalised coordinates, as numerators over h*w (the whole
\* image, its right half, its top left quarter): IoU 1, 1/2, 1/4 and 0 occur
GtBoxChoices    == {<<0, 0, 2, 2>>, <<0, 0, 1, 1>>}
ProposalChoices == {<<0, 0, 4, 4>>, <<0, 2, 4, 4>>, <<0, 0, 2, 2>>}
\* crowd, padding/background, a real class
ClassIdChoices  == {-1, 0, 1}
\* (TRAIN_ROIS_PER_IMAGE, ROI_POSITIVE_RATIO) with the ratio in (0,1]
ConfigChoices ==
    { [TRAIN_ROIS_PER_IMAGE |-> 2, ROI_POSITIVE_RATIO |-> <<1, 3>>],
      [TRAIN_ROIS_PER_IMAGE |-> 2, ROI_POSITIVE_RATIO |-> <<1, 2>>],
      [TRAIN_ROIS_PER_IMAGE |-> 3, ROI_POSITIVE_RATIO |-> <<1, 3>>],
      [TRAIN_ROIS_PER_IMAGE |-> 3, ROI_POSITIVE_RATIO |-> <<3, 4>>] }

-----------------------------------------------------------------------------
(* Helpers: tensors as sequences *)

Min(a, b) == IF a < b THEN a ELSE b
Max(a, b) == IF a > b THEN a ELSE b

\* a tensor built element by element, held as a tuple
Tensor(s) == s \o <<>>

SeqsUpTo(S, n) == UNION { [1..k -> S] : k \in 0..n }

\* x[:n] for n >= 0
Prefix(s, n) == SubSeq(s, 1, Min(n, Len(s)))

\* torch.nonzero(b)[:, 0] of a 1-D boolean tensor b (0 based indices, ascending)
Nonzero(b) == LET F[k \in 0..Len(b)] ==
                    IF k = 0 THEN <<>>
                    ELSE IF b[k] THEN Append(F[k-1], k-1) ELSE F[k-1]
              IN F[Len(b)]

\* x[ix] (ix a sequence of 0 based indices)
Gather(x, ix) == Tensor([k \in 1..Len(ix) |-> x[ix[k] + 1]])

\* torch.randperm(n): every permutation of 0..n-1
Permutations0 ==
    [n \in 0..MaxProposals |->
        { p \in [1..n -> 0..(n-1)] : \A i, j \in 1..n : p[i] = p[j] => i = j }]
RandPerm(n) == Permutations0[n]

\* exact comparison of fractions with positive denominators
FracGe(a, b) == a[1] * b[2] >= b[1] * a[2]
FracLt(a, b) == ~FracGe(a, b)

\* torch.max(row)[0] and [1]: the maximum and the (0 based) first index of it
RowMax(row) == CHOOSE v \in { row[j] : j \in 1..Len(row) } :
                   \A j \in 1..Len(row) : FracGe(v, row[j])
RowArgMax(row) == (CHOOSE j \in 1..Len(row) :
                     /\ \A k \in 1..Len(row) : FracGe(row[j], row[k])
                     /\ \A k \in 1..(j-1) : ~FracGe(row[k], row[j])) - 1

-----------------------------------------------------------------------------
(* Geometry (maskr.utils.box_utils) *)

Area(b) == (b[3] - b[1]) * (b[4] - b[2])
Intersection(a, b) ==
    Max(Min(a[3], b[3]) - Max(a[1], b[1]), 0) * Max(Min(a[4], b[4]) - Max(a[2], b[2]), 0)
IoU(a, b) == LET i == Intersection(a, b)
                 u == Area(a) + Area(b) - i
             IN IF u = 0 THEN <<0, 1>> ELSE <<i, u>>

compute_overlaps(boxesA, boxesB) ==
    Tensor([i \in 1..Len(boxesA) |->
              Tensor([j \in 1..Len(boxesB) |-> IoU(boxesA[i], boxesB[j])])])

\* the delta of each (box, target box) pair, kept as a term
box_refinement(boxes, target_boxes) ==
    Tensor([k \in 1..Len(boxes) |-> <<"delta", boxes[k], target_boxes[k]>>])

\* one cropped mask per box: mask box_ids[k] of roi_masks cropped to boxes[k]
CropAndResize(roi_masks, boxes, box_ids) ==
    Tensor([k \in 1..Len(boxes) |-> <<"mask", roi_masks[box_ids[k] + 1], boxes[k]>>])

-----------------------------------------------------------------------------
(* build_head_targets, one image *)

\* torch.tensor([h, w, h, w]); gt_boxes / scale, as numerators over h*w
NormalizeBox(b) == LET h == IMAGE_SHAPE[1]
                       w == IMAGE_SHAPE[2]
                   IN <<b[1] * w, b[2] * h, b[3] * w, b[4] * h>>
Normalize(boxes) == Tensor([k \in 1..Len(boxes) |-> NormalizeBox(boxes[k])])

IouThreshold   == <<1, 2>>       \* 0.5
CrowdThreshold == <<1, 1000>>    \* 0.001

crowd_ix(cls)     == Nonzero(Tensor([k \in 1..Len(cls) |-> cls[k] < 0]))
non_crowd_ix(cls) == Nonzero(Tensor([k \in 1..Len(cls) |-> cls[k] > 0]))
HasCrowd(cls)     == Len(crowd_ix(cls)) > 0

\* the ground truth that gt_class_ids, gt_boxes and gt_masks name when the
\* overlaps are computed: rebound to non_crowd_ix in the crowd branch only
KeptGtIx(cls) == IF HasCrowd(cls) THEN non_crowd_ix(cls)
                 ELSE Tensor([k \in 1..Len(cls) |-> k - 1])

no_crowd_bool(props, cls, boxes) ==
    IF HasCrowd(cls)
    THEN LET crowd_boxes    == Gather(Normalize(boxes), crowd_ix(cls))
             crowd_overlaps == compute_overlaps(props, crowd_boxes)
         IN Tensor([i \in 1..Len(props) |->
                       FracLt(RowMax(crowd_overlaps[i]), CrowdThreshold)])
    ELSE Tensor([i \in 1..Len(props) |-> TRUE])

overlaps(props, cls, boxes) ==
    compute_overlaps(props, Gather(Normalize(boxes), KeptGtIx(cls)))

\* torch.max(overlaps, dim=1)[0]
roi_iou_max(props, cls, boxes) ==
    LET ovl == overlaps(props, cls, boxes)
    IN Tensor([i \in 1..Len(props) |-> RowMax(ovl[i])])

positive_roi_bool(props, cls, boxes) ==
    LET iou_max == roi_iou_max(props, cls, boxes)
    IN Tensor([i \in 1..Len(props) |-> FracGe(iou_max[i], IouThreshold)])

negative_roi_bool(props, cls, boxes) ==
    LET iou_max  == roi_iou_max(props, cls, boxes)
        no_crowd == no_crowd_bool(props, cls, boxes)
    IN Tensor([i \in 1..Len(props) |->
                  FracLt(iou_max[i], IouThreshold) /\ no_crowd[i]])

\* (variant of PositiveTarget that rounds the product up)
PositiveTargetCeil(cfg) ==
    LET n == cfg.TRAIN_ROIS_PER_IMAGE * cfg.ROI_POSITIVE_RATIO[1]
        d == cfg.ROI_POSITIVE_RATIO[2]
    IN (n + d - 1) \div d
\* int(config.TRAIN_ROIS_PER_IMAGE * config.ROI_POSITIVE_RATIO): truncation
PositiveTarget(cfg) ==
    (cfg.TRAIN_ROIS_PER_IMAGE * cfg.ROI_POSITIVE_RATIO[1]) \div cfg.ROI_POSITIVE_RATIO[2]

\* (variants of NegativeTarget: fill up to TRAIN_ROIS_PER_IMAGE whatever the
\* positives; int(r * positive_count) without the subtraction)
NegativeTargetFill(neg_bool, pcount, cfg) == cfg.TRAIN_ROIS_PER_IMAGE - pcount
NegativeTargetNoSubtract(neg_bool, pcount, cfg) ==
    IF Len(Nonzero(neg_bool)) > 0 /\ pcount > 0
    THEN (cfg.ROI_POSITIVE_RATIO[2] * pcount) \div cfg.ROI_POSITIVE_RATIO[1]
    ELSE 0
\* the number of negatives asked for: int(r * positive_count - positive_count)
\* with r = 1.0 / ROI_POSITIVE_RATIO, under the guard of the negative branch
\* (no negative is taken when the guard fails)
NegativeTarget(neg_bool, pcount, cfg) ==
    IF Len(Nonzero(neg_bool)) > 0 /\ pcount > 0
    THEN LET num == cfg.ROI_POSITIVE_RATIO[1]
             den == cfg.ROI_POSITIVE_RATIO[2]
         IN (den * pcount - num * pcount) \div num
    ELSE 0

\* torch.max over dim 1 of an [N, 0] matrix has no identity and throws
MaxRaises(cls) == Len(KeptGtIx(cls)) = 0

BuildHeadTargetsRaises ==
    /\ fn = "build_head_targets" /\ pc = "start"
    /\ MaxRaises(gt_class_ids)
    /\ pc' = "raised"
    /\ UNCHANGED <<fn, headIn, headLoc, headOut, lossIn, loss>>

\* Each local of the function is bound once, in the order the code assigns it.
\* deltas stands for box_refinement(...) / BBOX_STD_DEV and masks for the
\* rounded crop of the assigned mask (in image or mini-mask coordinates): both
\* are kept as one term per positive roi, naming the roi and what it was
\* assigned to.
BuildHeadTargets ==
    /\ fn = "build_head_targets" /\ pc = "start"
    /\ ~MaxRaises(gt_class_ids)
    /\ \E kept \in {KeptGtIx(gt_class_ids)},
          ovl \in {overlaps(proposals, gt_class_ids, gt_boxes)},
          pos_bool \in {positive_roi_bool(proposals, gt_class_ids, gt_boxes)},
          neg_bool \in {negative_roi_bool(proposals, gt_class_ids, gt_boxes)} :
       \E k_class \in {Gather(gt_class_ids, kept)},
          k_boxes \in {Gather(Normalize(gt_boxes), kept)},
          k_masks \in {Gather(Tensor([k \in 1..Len(gt_boxes) |-> <<"gt_mask", k - 1>>]), kept)},
          all_pos \in {Nonzero(pos_bool)},
          all_neg \in {Nonzero(neg_bool)} :
       \E rand_p \in RandPerm(Len(all_pos)), rand_n \in RandPerm(Len(all_neg)) :
       \E pos_ix \in {IF Len(all_pos) > 0
                      THEN Gather(all_pos, Prefix(rand_p, PositiveTarget(config)))
                      ELSE <<>>} :
       \E pos_rois \in {Gather(proposals, pos_ix)},
          assign \in {Tensor([k \in 1..Len(pos_ix) |-> RowArgMax(ovl[pos_ix[k] + 1])])},
          neg_ix \in {Gather(all_neg,
                             Prefix(rand_n, NegativeTarget(neg_bool, Len(pos_ix), config)))} :
            /\ overlap_class_ids' = k_class
            /\ positive_indices' = pos_ix
            /\ positive_count' = Len(pos_ix)
            /\ negative_indices' = neg_ix
            /\ class_ids' = Gather(k_class, assign)
            /\ deltas' = box_refinement(pos_rois, Gather(k_boxes, assign))
            /\ masks' = CropAndResize(Gather(k_masks, assign), pos_rois,
                                      Tensor([k \in 1..Len(pos_ix) |-> k - 1]))
            /\ rois' = pos_rois \o Gather(proposals, neg_ix)
    /\ pc' = "done"
    /\ UNCHANGED <<fn, headIn, lossIn, loss>>

NoLossInput == /\ rpn_match = <<>> /\ target_class_ids = <<>> /\ pad = 0
               /\ loss = [kind |-> "none"]

InitHead ==
    /\ fn = "build_head_targets" /\ pc = "start"
    /\ proposals \in SeqsUpTo(ProposalChoices, MaxProposals)
    /\ \E gt \in SeqsUpTo(ClassIdChoices \X GtBoxChoices, MaxGT) :
          /\ gt_class_ids = [k \in 1..Len(gt) |-> gt[k][1]]
          /\ gt_boxes = [k \in 1..Len(gt) |-> gt[k][2]]
    /\ config \in ConfigChoices
    /\ overlap_class_ids = <<>> /\ positive_indices = <<>> /\ negative_indices = <<>>
    /\ positive_count = 0
    /\ rois = <<>> /\ class_ids = <<>> /\ deltas = <<>> /\ masks = <<>>
    /\ NoLossInput

NextHead == BuildHeadTargets \/ BuildHeadTargetsRaises

SpecHead == InitHead /\ [][NextHead]_vars

-----------------------------------------------------------------------------
(* Losses (maskmm/loss.py) *)

\* class slots of the head predictions: 0 is background
ClassSlots == {0, 1, 2}
NumClasses == Cardinality(ClassSlots)

\* squash: [batch, N, ...] -> [batch * N, ...]
squash(x) == LET F[k \in 0..Len(x)] == IF k = 0 THEN <<>> ELSE F[k-1] \o x[k]
             IN F[Len(x)]

\* b.nonzero() of a 2-D boolean tensor: the (row, column) pairs, row major
Nonzero2(b) ==
    LET F[k \in 0..Len(b)] ==
            IF k = 0 THEN <<>>
            ELSE LET cols == Nonzero(b[k])
                 IN F[k-1] \o Tensor([t \in 1..Len(cols) |-> <<k - 1, cols[t]>>])
    IN F[Len(b)]

\* x[indices[:, 0], indices[:, 1]]
Gather2(x, indices) ==
    Tensor([k \in 1..Len(indices) |-> x[indices[k][1] + 1][indices[k][2] + 1]])

\* The network outputs and targets, as terms naming (tensor, image, item, ...):
\* the tensors of one call, of the shapes the docstrings give
BatchSize == Len(rpn_match)
Anchors   == IF rpn_match = <<>> THEN 0 ELSE Len(rpn_match[1])
NumRois   == IF target_class_ids = <<>> THEN 0 ELSE Len(target_class_ids[1])

\* one scalar of a tensor: <<tensor, (image, item, ...), component>>
Row4(name, at) == <<<<name, at, 0>>, <<name, at, 1>>, <<name, at, 2>>, <<name, at, 3>>>>

\* rpn_class_logits: [batch, anchors, 2]
RpnClassLogits ==
    Tensor([b \in 1..BatchSize |-> Tensor([a \in 1..Anchors |->
        <<<<"rpn_class_logits", <<b - 1, a - 1>>, 0>>,
          <<"rpn_class_logits", <<b - 1, a - 1>>, 1>>>>])])
\* rpn_bbox: [batch, anchors, 4]
RpnBboxPred ==
    Tensor([b \in 1..BatchSize |->
        Tensor([a \in 1..Anchors |-> Row4("rpn_bbox", <<b - 1, a - 1>>)])])
\* target_bbox of rpn_bbox: [batch, max positive anchors, 4], zero padded
RpnTargetBbox ==
    Tensor([b \in 1..BatchSize |->
        Tensor([p \in 1..pad |-> Row4("target_bbox", <<b - 1, p - 1>>)])])
\* target_bbox of mrcnn_bbox: [batch, num_rois, 4]
MrcnnTargetBbox ==
    Tensor([b \in 1..Len(target_class_ids) |->
        Tensor([r \in 1..NumRois |-> Row4("target_bbox", <<b - 1, r - 1>>)])])
\* pred_bbox: [batch, num_rois, num_classes, 4]
PredBbox ==
    Tensor([b \in 1..Len(target_class_ids) |-> Tensor([r \in 1..NumRois |->
        Tensor([c \in 1..NumClasses |-> Row4("pred_bbox", <<b - 1, r - 1, c - 1>>)])])])
\* target_masks: [batch, num_rois, height, width]; a grid is one term
TargetMasks ==
    Tensor([b \in 1..Len(target_class_ids) |->
        Tensor([r \in 1..NumRois |-> <<"target_masks", <<b - 1, r - 1>>, "grid">>])])
\* pred_masks, indexed [roi, class, :, :] after squash
PredMasks ==
    Tensor([b \in 1..Len(target_class_ids) |-> Tensor([r \in 1..NumRois |->
        Tensor([c \in 1..NumClasses |-> <<"pred_masks", <<b - 1, r - 1, c - 1>>, "grid">>])])])

\* rpn_class.  loss records the arguments F.cross_entropy is called with.
RpnClass ==
    /\ fn = "rpn_class" /\ pc = "start"
    /\ \E match \in {squash(rpn_match)}, logits \in {squash(RpnClassLogits)} :
       \E anchor_class \in {Tensor([i \in 1..Len(match) |->
                                <<IF match[i][1] = 1 THEN 1 ELSE 0>>])},
          indices \in {Nonzero2(Tensor([i \in 1..Len(match) |->
                                <<match[i][1] # 0>>]))} :
            loss' = [kind |-> "cross_entropy",
                     input |-> Gather2(logits, indices),
                     target |-> Gather2(anchor_class, indices)]
    /\ pc' = "done"
    /\ UNCHANGED <<fn, headIn, headLoc, headOut, lossIn>>

\* target_bbox[i, :count] is evaluated for every flat anchor i: it throws
\* IndexError as soon as i is no row of the squashed target_bbox
RpnBboxRaises ==
    /\ fn = "rpn_bbox" /\ pc = "start"
    /\ Len(squash(rpn_match)) > Len(squash(RpnTargetBbox))
    /\ pc' = "raised"
    /\ UNCHANGED <<fn, headIn, headLoc, headOut, lossIn, loss>>

\* sum(dim=1) of rpn_match.eq(1), a [batch * anchors, 1] tensor
item_counts(match) ==
    Tensor([i \in 1..Len(match) |-> IF match[i][1] = 1 THEN 1 ELSE 0])

\* torch.cat of target_bbox[i, :count] over enumerate(item_counts)
TrimTargets(target_bbox, counts) ==
    LET F[k \in 0..Len(counts)] ==
            IF k = 0 THEN <<>> ELSE F[k-1] \o Prefix(target_bbox[k], counts[k])
    IN F[Len(counts)]

RpnBbox ==
    /\ fn = "rpn_bbox" /\ pc = "start"
    /\ Len(squash(rpn_match)) <= Len(squash(RpnTargetBbox))
    /\ \E target_bbox \in {squash(RpnTargetBbox)}, match \in {squash(rpn_match)},
          pred \in {squash(RpnBboxPred)} :
       \E indices \in {Nonzero2(Tensor([i \in 1..Len(match) |-> <<match[i][1] = 1>>]))} :
            loss' = [kind |-> "smooth_l1",
                     input |-> Gather2(pred, indices),
                     target |-> TrimTargets(target_bbox, item_counts(match))]
    /\ pc' = "done"
    /\ UNCHANGED <<fn, headIn, headLoc, headOut, lossIn>>

\* with torch.no_grad(): loss = torch.tensor([0]).float()
ZeroNoGrad == [kind |-> "zero_nograd"]

\* (variant of GatherClassSlot that reads class slot 0 of every selected ROI)
GatherClassSlotZero(pred, ix, cls) == Tensor([k \in 1..Len(ix) |-> pred[ix[k] + 1][1]])
\* pred[indices[:, 0], indices[:, 1], ...] with indices = stack((ix, cls), dim=1)
GatherClassSlot(pred, ix, cls) ==
    Tensor([k \in 1..Len(ix) |-> pred[ix[k] + 1][cls[k] + 1]])

\* torch.nonzero(target_class_ids > 0)[:, 0]
PositiveRoiIx(tci) == Nonzero(Tensor([i \in 1..Len(tci) |-> tci[i] > 0]))

MrcnnBbox ==
    /\ fn = "mrcnn_bbox" /\ pc = "start"
    /\ \E target_bbox \in {squash(MrcnnTargetBbox)}, tci \in {squash(target_class_ids)},
          pred_bbox \in {squash(PredBbox)} :
         IF Len(tci) > 0
         THEN \E positive_roi_ix \in {PositiveRoiIx(tci)} :
                loss' = [kind |-> "smooth_l1",
                         input |-> GatherClassSlot(pred_bbox, positive_roi_ix,
                                                   Gather(tci, positive_roi_ix)),
                         target |-> Gather(target_bbox, positive_roi_ix)]
         ELSE loss' = ZeroNoGrad
    /\ pc' = "done"
    /\ UNCHANGED <<fn, headIn, headLoc, headOut, lossIn>>

MrcnnMask ==
    /\ fn = "mrcnn_mask" /\ pc = "start"
    /\ \E target_masks \in {squash(TargetMasks)}, tci \in {squash(target_class_ids)},
          pred_masks \in {squash(PredMasks)} :
         IF Len(tci) > 0
         THEN \E positive_ix \in {PositiveRoiIx(tci)} :
                loss' = [kind |-> "binary_cross_entropy",
                         input |-> GatherClassSlot(pred_masks, positive_ix,
                                                   Gather(tci, positive_ix)),
                         target |-> Gather(target_masks, positive_ix)]
         ELSE loss' = ZeroNoGrad
    /\ pc' = "done"
    /\ UNCHANGED <<fn, headIn, headLoc, headOut, lossIn>>

NoHeadInput ==
    /\ proposals = <<>> /\ gt_class_ids = <<>> /\ gt_boxes = <<>>
    /\ config = [TRAIN_ROIS_PER_IMAGE |-> 0, ROI_POSITIVE_RATIO |-> <<1, 1>>]
    /\ overlap_class_ids = <<>> /\ positive_indices = <<>> /\ negative_indices = <<>>
    /\ positive_count = 0
    /\ rois = <<>> /\ class_ids = <<>> /\ deltas = <<>> /\ masks = <<>>

InitLoss ==
    /\ pc = "start" /\ loss = [kind |-> "none"]
    /\ NoHeadInput
    /\ \E batch \in 1..MaxBatch :
          \/ /\ fn \in {"rpn_class", "rpn_bbox"}
             /\ \E anchors \in 1..MaxAnchors :
                   rpn_match \in [1..batch -> [1..anchors -> {<<-1>>, <<0>>, <<1>>}]]
             \* the targets are padded to at least every image's positive count
             /\ pad \in IF fn = "rpn_bbox" THEN 0..MaxPad ELSE {0}
             /\ fn = "rpn_bbox" =>
                   \A b \in 1..batch :
                       Cardinality({a \in 1..Len(rpn_match[b]) : rpn_match[b][a][1] = 1}) <= pad
             /\ target_class_ids = <<>>
          \/ /\ fn \in {"mrcnn_bbox", "mrcnn_mask"}
             /\ \E num_rois \in 0..MaxRois :
                   target_class_ids \in [1..batch -> [1..num_rois -> ClassSlots]]
             /\ rpn_match = <<>> /\ pad = 0

NextLoss == RpnClass \/ RpnBbox \/ RpnBboxRaises \/ MrcnnBbox \/ MrcnnMask

SpecLoss == InitLoss /\ [][NextLoss]_vars

-----------------------------------------------------------------------------
(* Properties of build_head_targets *)

HeadDone == fn = "build_head_targets" /\ pc = "done"

\* round(n / d) for n >= 0, d > 0, halves to the even neighbour
Round(n, d) == LET q == n \div d
                   r == n % d
               IN IF 2 * r < d THEN q
                  ELSE IF 2 * r > d THEN q + 1
                  ELSE IF q % 2 = 0 THEN q ELSE q + 1

RatioNum == config.ROI_POSITIVE_RATIO[1]
RatioDen == config.ROI_POSITIVE_RATIO[2]

\* the IoU of proposal i (0 based) with ground truth j (1 based)
ProposalIoU(i, j) == IoU(proposals[i + 1], NormalizeBox(gt_boxes[j]))

\* the proposals with max-IoU >= 0.5, and the eligible negatives
NumPositive == Len(Nonzero(positive_roi_bool(proposals, gt_class_ids, gt_boxes)))
NumEligibleNegative == Len(Nonzero(negative_roi_bool(proposals, gt_class_ids, gt_boxes)))

Distinct(s) == \A a, b \in 1..Len(s) : s[a] = s[b] => a = b

\* C1: on return, class_ids, deltas and masks each have positive_count entries,
\* positive_count is at most round(TRAIN_ROIS_PER_IMAGE * ROI_POSITIVE_RATIO),
\* and rois is the kept positives followed by the kept negatives.
C1_OutputShape ==
    HeadDone =>
        /\ Len(class_ids) = positive_count
        /\ Len(deltas) = positive_count
        /\ Len(masks) = positive_count
        /\ Len(positive_indices) = positive_count
        /\ positive_count <= Round(config.TRAIN_ROIS_PER_IMAGE * RatioNum, RatioDen)
        /\ Len(rois) = positive_count + Len(negative_indices)
        /\ \A k \in 1..Len(rois) :
              rois[k] = IF k <= positive_count
                        THEN proposals[positive_indices[k] + 1]
                        ELSE proposals[negative_indices[k - positive_count] + 1]

C1_Witness ==
    /\ HeadDone
    /\ positive_count > 0
    /\ Len(negative_indices) > 0
    /\ NumPositive > positive_count

\* C2: every roi of the positive prefix has IoU >= 0.5 with some non-crowd
\* (class id > 0) ground truth; every roi of the negative suffix has IoU < 0.5
\* with every non-crowd ground truth and IoU < 0.001 with every crowd box.
C2_PositiveNegativeThresholds ==
    HeadDone =>
        /\ \A k \in 1..Len(positive_indices) :
              \E j \in 1..Len(gt_class_ids) :
                  /\ gt_class_ids[j] > 0
                  /\ FracGe(ProposalIoU(positive_indices[k], j), IouThreshold)
        /\ \A k \in 1..Len(negative_indices) :
              \A j \in 1..Len(gt_class_ids) :
                  /\ gt_class_ids[j] > 0 =>
                        FracLt(ProposalIoU(negative_indices[k], j), IouThreshold)
                  /\ gt_class_ids[j] < 0 =>
                        FracLt(ProposalIoU(negative_indices[k], j), CrowdThreshold)

\* C3: when no positive is kept, class_ids, deltas and masks are empty, no
\* negative is sampled and rois is empty.
C3_NoPositivesNoOutput ==
    (HeadDone /\ Len(positive_indices) = 0) =>
        /\ class_ids = <<>> /\ deltas = <<>> /\ masks = <<>>
        /\ negative_indices = <<>>
        /\ rois = <<>>

C3_Witness ==
    /\ HeadDone
    /\ Len(positive_indices) = 0
    /\ NumPositive > 0
    /\ NumEligibleNegative > 0

\* C7 as stated: the number of kept positives is min(n, round(TRAIN_ROIS_PER_IMAGE
\* * ROI_POSITIVE_RATIO)) and the kept positives are distinct proposals.
C7_RoundedPositiveCount ==
    HeadDone =>
        /\ Len(positive_indices) =
              Min(NumPositive, Round(config.TRAIN_ROIS_PER_IMAGE * RatioNum, RatioDen))
        /\ Distinct(positive_indices)

\* C7 as amended: the number of kept positives is min(n, t) with t the product
\* TRAIN_ROIS_PER_IMAGE * ROI_POSITIVE_RATIO truncated to an integer, and the
\* kept positives are distinct proposals with max-IoU >= 0.5.
C7_TruncatedPositiveCount ==
    HeadDone =>
        /\ Len(positive_indices) =
              Min(NumPositive, (config.TRAIN_ROIS_PER_IMAGE * RatioNum) \div RatioDen)
        /\ Distinct(positive_indices)
        /\ \A k \in 1..Len(positive_indices) :
              positive_roi_bool(proposals, gt_class_ids, gt_boxes)[positive_indices[k] + 1]

C7_Witness ==
    /\ HeadDone
    /\ Len(positive_indices) = 2
    /\ NumPositive = 3
    /\ Round(config.TRAIN_ROIS_PER_IMAGE * RatioNum, RatioDen) = 2

\* C8 as stated: with positive_count > 0 and m eligible negatives, the number
\* of negatives is min(m, round(positive_count / ROI_POSITIVE_RATIO) - positive_count).
C8_RoundedNegativeCount ==
    (HeadDone /\ positive_count > 0) =>
        Len(negative_indices) =
            Min(NumEligibleNegative, Round(positive_count * RatioDen, RatioNum) - positive_count)

\* C8 as amended: the number of negatives is min(m, c) with c the difference
\* positive_count / ROI_POSITIVE_RATIO - positive_count truncated to an integer.
C8_TruncatedNegativeCount ==
    (HeadDone /\ positive_count > 0) =>
        /\ Len(negative_indices) =
              Min(NumEligibleNegative,
                  (positive_count * RatioDen - positive_count * RatioNum) \div RatioNum)
        /\ Distinct(negative_indices)

C8_Witness ==
    /\ HeadDone
    /\ positive_count = 1
    /\ Len(negative_indices) = 1
    /\ NumEligibleNegative = 2

\* C9: the overlap matrix has columns only for ground truth with class id > 0,
\* and every entry of the returned class_ids is > 0.
C9_ClassZeroNeverAssigned ==
    HeadDone =>
        /\ \A j \in 1..Len(overlap_class_ids) : overlap_class_ids[j] > 0
        /\ \A k \in 1..Len(class_ids) : class_ids[k] > 0

-----------------------------------------------------------------------------
(* Properties of the losses *)

LossDone(f) == fn = f /\ pc = "done"

\* the (0 based) anchors of image b (1 based) whose match label satisfies Sel
AnchorsWhere(b, Sel(_)) ==
    Nonzero(Tensor([a \in 1..Len(rpn_match[b]) |-> Sel(rpn_match[b][a][1])]))
IsPositive(m) == m = 1
IsNotNeutral(m) == m # 0

\* C4: in mrcnn_bbox and mrcnn_mask, when no ROI has target class id > 0 the
\* result is the zero scalar with no gradient and the loss primitive is not
\* applied.
C4_EmptySelectionIsZero ==
    ((LossDone("mrcnn_bbox") \/ LossDone("mrcnn_mask"))
        /\ \A b \in 1..Len(target_class_ids) : \A r \in 1..Len(target_class_ids[b]) :
              ~(target_class_ids[b][r] > 0))
    => loss = [kind |-> "zero_nograd"]

\* C5: in rpn_bbox the targets given to smooth-L1 are the first p_b rows (all
\* four components) of each image's padded target array, in image order, and
\* the k-th of them is paired with the four predicted deltas of the k-th
\* positive anchor.
C5_TrimmedPerImage ==
    LossDone("rpn_bbox") =>
        /\ loss.kind = "smooth_l1"
        /\ loss.target =
              squash(Tensor([b \in 1..BatchSize |->
                  Prefix(RpnTargetBbox[b], Len(AnchorsWhere(b, IsPositive)))]))
        /\ loss.input =
              squash(Tensor([b \in 1..BatchSize |->
                  Gather(RpnBboxPred[b], AnchorsWhere(b, IsPositive))]))

\* the (prediction, target) pairs a loss was applied to
Contributions == IF loss.kind \in {"smooth_l1", "binary_cross_entropy", "cross_entropy"}
                 THEN { <<loss.input[k], loss.target[k]>> :
                            k \in 1..Max(Len(loss.input), Len(loss.target)) }
                 ELSE {}
ContributionCount == IF loss.kind \in {"smooth_l1", "binary_cross_entropy", "cross_entropy"}
                     THEN Len(loss.input) ELSE 0

PositiveRois == { br \in (1..Len(target_class_ids)) \X (1..NumRois) :
                    target_class_ids[br[1]][br[2]] > 0 }

\* C6: in mrcnn_bbox what enters the loss is, for every ROI i with target class
\* id c > 0, pred_bbox[i, c, :] paired with target_bbox[i, :], and nothing else.
C6_ClassSlotGather ==
    LossDone("mrcnn_bbox") =>
        /\ Contributions =
              { <<Row4("pred_bbox", <<br[1] - 1, br[2] - 1, target_class_ids[br[1]][br[2]]>>),
                  Row4("target_bbox", <<br[1] - 1, br[2] - 1>>)>> : br \in PositiveRois }
        /\ ContributionCount = Cardinality(PositiveRois)

C6_Witness ==
    /\ LossDone("mrcnn_bbox")
    /\ Len(target_class_ids) = 2
    /\ \E br \in PositiveRois : target_class_ids[br[1]][br[2]] = 2 /\ br[1] = 2
    /\ \E br \in PositiveRois : target_class_ids[br[1]][br[2]] = 1
    /\ \E b \in 1..2, r \in 1..NumRois : target_class_ids[b][r] = 0

\* C10: in rpn_class the anchors entering the cross-entropy are exactly those
\* with match label # 0, each with both of its logits, paired with target 1
\* for label 1 and 0 for label -1.
C10_FullLogitsOfNonNeutral ==
    LossDone("rpn_class") =>
        /\ loss.kind = "cross_entropy"
        /\ loss.input =
              squash(Tensor([b \in 1..BatchSize |->
                  Gather(RpnClassLogits[b], AnchorsWhere(b, IsNotNeutral))]))
        /\ loss.target =
              squash(Tensor([b \in 1..BatchSize |->
                  Tensor([k \in 1..Len(AnchorsWhere(b, IsNotNeutral)) |->
                      IF rpn_match[b][AnchorsWhere(b, IsNotNeutral)[k] + 1][1] = 1
                      THEN 1 ELSE 0])]))

====
